---------------------------- MODULE Spec2Model ----------------------------
(***************************************************************************)
(* CompactSize (VarInt) codec of src/src/lib.rs: encode, decode, get_size. *)
(*                                                                         *)
(* A u64 is held as four 16-bit limbs, most significant first, because the *)
(* model checker's integers are 32 bits wide: <<a, b, c, d>> stands for    *)
(* a*2^48 + b*2^32 + c*2^16 + d.  Order on u64 is the lexicographic order  *)
(* of the limbs; to_le_bytes / from_le_bytes convert between limbs and the *)
(* eight little-endian bytes by division and remainder.                    *)
(*                                                                         *)
(* A call's outcome is a record [kind, value]:                             *)
(*   kind = "Ok"    value = what the function returned inside Ok(..)       *)
(*   kind = "Panic" value = the panic message (the call aborted)           *)
(* The code builds no Err(..) anywhere, so no outcome has kind "Err".      *)
(***************************************************************************)
EXTENDS Integers, Sequences, FiniteSets

VARIABLES op, size, bytes, result

vars == <<op, size, bytes, result>>

\* ------------------------------------------------------------ bounds

\* How far around each anchor limb value the enumerated u64 inputs reach.
Spread == 1

\* How many bytes beyond the longest encoding (9) a decode input may carry.
MaxTrail == 1

\* ------------------------------------------------------------ u64

LimbMax == (256 * 256) - 1

U64(a, b, c, d) == <<a, b, c, d>>

\* x < y on u64
U64Lt(x, y) ==
    \E i \in 1..4 : /\ x[i] < y[i]
                    /\ \A j \in 1..(i - 1) : x[j] = y[j]

\* x <= y on u64
U64Le(x, y) == x = y \/ U64Lt(x, y)

\* (lo..hi).contains(&x): Rust's half-open range, lo <= x < hi
RangeContains(lo, hi, x) == U64Le(lo, x) /\ U64Lt(x, hi)

\* The literals of lib.rs
Lit252 == U64(0, 0, 0, 252)
Lit253 == U64(0, 0, 0, 253)
LitFFFF == U64(0, 0, 0, LimbMax)
Lit10000 == U64(0, 0, 1, 0)
LitFFFFFFFF == U64(0, 0, LimbMax, LimbMax)
Lit100000000 == U64(0, 1, 0, 0)
Lit10000000 == U64(0, 0, 4096, 0)
U64MAX == U64(LimbMax, LimbMax, LimbMax, LimbMax)

\* u64::to_le_bytes: eight bytes, least significant first (1-indexed here,
\* so size_bytes[k] of the source is to_le_bytes(x)[k + 1])
to_le_bytes(x) ==
    [i \in 1..8 |->
        LET limb == x[4 - ((i - 1) \div 2)]
        IN  IF (i - 1) % 2 = 0 THEN limb % 256 ELSE limb \div 256]

\* u64::from_le_bytes of an array of eight bytes
from_le_bytes(b) ==
    U64(b[8] * 256 + b[7], b[6] * 256 + b[5], b[4] * 256 + b[3], b[2] * 256 + b[1])

\* ------------------------------------------------------------ outcomes

Ok(v) == [kind |-> "Ok", value |-> v]

Panic(msg) == [kind |-> "Panic", value |-> msg]

Unexpected == Panic("VarInt: unexpected input")

\* bytes[i] past the end of a slice
OutOfBounds == Panic("index out of bounds")

NoResult == [kind |-> "None", value |-> <<>>]

\* ------------------------------------------------------------ encode

encode(sz) ==
    LET size_bytes == to_le_bytes(sz)
    IN  IF U64Le(sz, Lit252)
          THEN Ok(<<size_bytes[1]>>)
        ELSE IF RangeContains(Lit253, LitFFFF, sz)
          THEN Ok(<<253, size_bytes[1], size_bytes[2]>>)
        ELSE IF RangeContains(Lit10000, LitFFFFFFFF, sz)
          THEN Ok(<<254, size_bytes[1], size_bytes[2], size_bytes[3], size_bytes[4]>>)
        ELSE IF RangeContains(Lit100000000, U64MAX, sz)
          THEN Ok(<<255>> \o size_bytes)
        ELSE Unexpected

\* ------------------------------------------------------------ get_size

\* get_size with the 0x10000000 arm tested before the 5-byte arm.
get_size_reordered(varint) ==
    IF U64Le(varint, Lit252) THEN Ok(1)
    ELSE IF RangeContains(Lit253, LitFFFF, varint) THEN Ok(3)
    ELSE IF RangeContains(Lit10000000, U64MAX, varint) THEN Ok(9)
    ELSE IF RangeContains(Lit10000, LitFFFFFFFF, varint) THEN Ok(5)
    ELSE Unexpected

get_size(varint) ==
    IF U64Le(varint, Lit252) THEN Ok(1)
    ELSE IF RangeContains(Lit253, LitFFFF, varint) THEN Ok(3)
    ELSE IF RangeContains(Lit10000, LitFFFFFFFF, varint) THEN Ok(5)
    ELSE IF RangeContains(Lit10000000, U64MAX, varint) THEN Ok(9)
    ELSE Unexpected

\* ------------------------------------------------------------ decode

\* decode with the two payload bytes of the 0xfd arm in the wrong order.
decode_swapped(b) ==
    IF Len(b) < 1 THEN OutOfBounds
    ELSE IF b[1] < 253
      THEN Ok(from_le_bytes(<<b[1], 0, 0, 0, 0, 0, 0, 0>>))
    ELSE IF b[1] = 253
      THEN IF Len(b) < 3 THEN OutOfBounds
           ELSE Ok(from_le_bytes(<<b[3], b[2], 0, 0, 0, 0, 0, 0>>))
    ELSE IF b[1] = 254
      THEN IF Len(b) < 5 THEN OutOfBounds
           ELSE Ok(from_le_bytes(<<b[2], b[3], b[4], b[5], 0, 0, 0, 0>>))
    ELSE IF b[1] = 255
      THEN IF Len(b) < 9 THEN OutOfBounds
           ELSE Ok(from_le_bytes(<<b[2], b[3], b[4], b[5], b[6], b[7], b[8], b[9]>>))
    ELSE Unexpected

\* decode with the first guard off by one (x < 0xfc), leaving 0xfc to the
\* fallback arm.
decode_gap(b) ==
    IF Len(b) < 1 THEN OutOfBounds
    ELSE IF b[1] < 252
      THEN Ok(from_le_bytes(<<b[1], 0, 0, 0, 0, 0, 0, 0>>))
    ELSE IF b[1] = 253
      THEN IF Len(b) < 3 THEN OutOfBounds
           ELSE Ok(from_le_bytes(<<b[2], b[3], 0, 0, 0, 0, 0, 0>>))
    ELSE IF b[1] = 254
      THEN IF Len(b) < 5 THEN OutOfBounds
           ELSE Ok(from_le_bytes(<<b[2], b[3], b[4], b[5], 0, 0, 0, 0>>))
    ELSE IF b[1] = 255
      THEN IF Len(b) < 9 THEN OutOfBounds
           ELSE Ok(from_le_bytes(<<b[2], b[3], b[4], b[5], b[6], b[7], b[8], b[9]>>))
    ELSE Unexpected

\* decode with the 0xfd arm indexing bytes[2], bytes[3] instead of bytes[1],
\* bytes[2].
decode_shifted(b) ==
    IF Len(b) < 1 THEN OutOfBounds
    ELSE IF b[1] < 253
      THEN Ok(from_le_bytes(<<b[1], 0, 0, 0, 0, 0, 0, 0>>))
    ELSE IF b[1] = 253
      THEN IF Len(b) < 4 THEN OutOfBounds
           ELSE Ok(from_le_bytes(<<b[3], b[4], 0, 0, 0, 0, 0, 0>>))
    ELSE IF b[1] = 254
      THEN IF Len(b) < 5 THEN OutOfBounds
           ELSE Ok(from_le_bytes(<<b[2], b[3], b[4], b[5], 0, 0, 0, 0>>))
    ELSE IF b[1] = 255
      THEN IF Len(b) < 9 THEN OutOfBounds
           ELSE Ok(from_le_bytes(<<b[2], b[3], b[4], b[5], b[6], b[7], b[8], b[9]>>))
    ELSE Unexpected

\* bytes[i] of the source (0-indexed) is b[i + 1]; an arm that indexes up to
\* bytes[n - 1] panics on a slice shorter than n.
decode(b) ==
    IF Len(b) < 1 THEN OutOfBounds
    ELSE IF b[1] < 253
      THEN Ok(from_le_bytes(<<b[1], 0, 0, 0, 0, 0, 0, 0>>))
    ELSE IF b[1] = 253
      THEN IF Len(b) < 3 THEN OutOfBounds
           ELSE Ok(from_le_bytes(<<b[2], b[3], 0, 0, 0, 0, 0, 0>>))
    ELSE IF b[1] = 254
      THEN IF Len(b) < 5 THEN OutOfBounds
           ELSE Ok(from_le_bytes(<<b[2], b[3], b[4], b[5], 0, 0, 0, 0>>))
    ELSE IF b[1] = 255
      THEN IF Len(b) < 9 THEN OutOfBounds
           ELSE Ok(from_le_bytes(<<b[2], b[3], b[4], b[5], b[6], b[7], b[8], b[9]>>))
    ELSE Unexpected

\* The number of leading bytes of the slice the matched arm of decode indexes
\* (0 when bytes[0] itself is out of bounds).
decode_reads(b) ==
    IF Len(b) < 1 THEN 0
    ELSE IF b[1] < 253 THEN 1
    ELSE IF b[1] = 253 THEN 3
    ELSE IF b[1] = 254 THEN 5
    ELSE 9

\* ------------------------------------------------------------ inputs

Near(anchors) ==
    {a + d : a \in anchors, d \in (0 - Spread)..Spread} \cap 0..LimbMax

HiLimbs == Near({0, 4096, LimbMax})

LoLimbs == Near({0, 253, 515, 4096, LimbMax})

U64Inputs == {U64(a, b, c, d) : a \in HiLimbs, b \in HiLimbs, c \in HiLimbs, d \in LoLimbs}

\* Payload bytes: a richer choice right after the discriminator, two values
\* further on.
PayloadAt(i) == IF i <= 3 THEN {0, 1, 2, 3, 5, 253, 255} ELSE {0, 255}

RECURSIVE Extend(_, _, _)
\* All sequences that extend one of `seqs` (each of length from - 1) up to
\* length `to`, prefixes included.
Extend(seqs, from, to) ==
    IF from > to THEN seqs
    ELSE seqs \cup Extend({Append(s, x) : s \in seqs, x \in PayloadAt(from)}, from + 1, to)

\* The longest slice enumerated for a first byte: its encoding and MaxTrail
\* trailing bytes.
LongestFor(first) ==
    MaxTrail + (IF first < 253 THEN 1 ELSE IF first = 253 THEN 3 ELSE IF first = 254 THEN 5 ELSE 9)

ByteInputs ==
    {<<>>} \cup UNION {Extend({<<first>>}, 2, LongestFor(first)) : first \in 0..255}

Zero == U64(0, 0, 0, 0)

\* ------------------------------------------------------------ state machine

Init ==
    /\ op = "idle"
    /\ result = NoResult
    /\ \/ size \in U64Inputs /\ bytes = <<>>
       \/ size = Zero /\ bytes \in ByteInputs

Encode ==
    /\ op' = "encode"
    /\ result' = encode(size)
    /\ UNCHANGED <<size, bytes>>

Decode ==
    /\ op' = "decode"
    /\ result' = decode(bytes)
    /\ UNCHANGED <<size, bytes>>

GetSize ==
    /\ op' = "get_size"
    /\ result' = get_size(size)
    /\ UNCHANGED <<size, bytes>>

Next == Encode \/ Decode \/ GetSize

Spec == Init /\ [][Next]_vars

\* ------------------------------------------------------------ the stated tables

\* The canonical range table, both ends of every range inclusive.
CanonicalLen(v) ==
    IF U64Le(v, Lit252) THEN 1
    ELSE IF U64Le(v, LitFFFF) THEN 3
    ELSE IF U64Le(v, LitFFFFFFFF) THEN 5
    ELSE 9

\* The canonical encoding: the discriminator of the class and the value's low
\* 1, 2, 4 or 8 bytes, least significant first.
CanonicalEncoding(v) ==
    LET lo(l) == l % 256
        hi(l) == l \div 256
    IN  IF CanonicalLen(v) = 1 THEN <<lo(v[4])>>
        ELSE IF CanonicalLen(v) = 3 THEN <<253, lo(v[4]), hi(v[4])>>
        ELSE IF CanonicalLen(v) = 5 THEN <<254, lo(v[4]), hi(v[4]), lo(v[3]), hi(v[3])>>
        ELSE <<255, lo(v[4]), hi(v[4]), lo(v[3]), hi(v[3]),
                    lo(v[2]), hi(v[2]), lo(v[1]), hi(v[1])>>

\* The number of bytes the discriminator of a slice calls for (an empty slice
\* lacks the discriminator itself).
Required(b) ==
    IF Len(b) = 0 THEN 1
    ELSE IF b[1] < 253 THEN 1
    ELSE IF b[1] = 253 THEN 3
    ELSE IF b[1] = 254 THEN 5
    ELSE 9

\* The little-endian value a long-enough slice carries: the first byte itself
\* below 0xFD, else the 2, 4 or 8 bytes after the discriminator.
CarriedValue(b) ==
    IF b[1] < 253 THEN U64(0, 0, 0, b[1])
    ELSE IF b[1] = 253 THEN U64(0, 0, 0, b[2] + 256 * b[3])
    ELSE IF b[1] = 254 THEN U64(0, 0, b[4] + 256 * b[5], b[2] + 256 * b[3])
    ELSE U64(b[8] + 256 * b[9], b[6] + 256 * b[7], b[4] + 256 * b[5], b[2] + 256 * b[3])

LongEnough(b) == Len(b) >= Required(b)

\* ------------------------------------------------------------ claims

\* C1: round trip. For every u64 v, encode(v) returns a byte sequence, and
\* decode of that sequence returns v, consuming exactly len(encode(v)) bytes.
\* Fails on the code: encode panics on 0xFFFF, 0xFFFFFFFF and u64::MAX.
C1_RoundTrip ==
    op = "encode" =>
        /\ result.kind = "Ok"
        /\ decode(result.value).kind = "Ok"
        /\ decode(result.value).value = size
        /\ decode_reads(result.value) = Len(result.value)

\* C2: length agreement. For every u64 v, get_size(v) returns a length,
\* encode(v) returns a sequence, and the length equals len(encode(v)).
\* Fails on the code: both panic on 0xFFFF and u64::MAX, and on 0xFFFFFFFF
\* get_size returns 9 while encode panics.
C2_LengthAgreement ==
    op = "get_size" =>
        /\ result.kind = "Ok"
        /\ encode(size).kind = "Ok"
        /\ result.value = Len(encode(size).value)

\* C3: encode follows the canonical range table with both ends of every range
\* inclusive, so its output is the canonical encoding of minimal length.
\* Fails on the code: the upper ends 0xFFFF, 0xFFFFFFFF, u64::MAX are excluded.
C3_EncodeCanonical ==
    op = "encode" => result.kind = "Ok" /\ result.value = CanonicalEncoding(size)

\* C4: encode is total: for every u64 it returns a result value (Ok or Err)
\* and never reaches its panic arm.
\* Fails on the code: 0xFFFF, 0xFFFFFFFF and u64::MAX reach the panic arm.
C4_EncodeTotal ==
    op = "encode" => result.kind \in {"Ok", "Err"}

\* C5: decode of a slice shorter than its discriminator requires fails with
\* an explicit TruncatedInput error value and does not panic.
\* Fails on the code: the index past the end of the slice panics.
C5_TruncatedIsError ==
    (op = "decode" /\ ~LongEnough(bytes)) =>
        result.kind = "Err" /\ result.value = "TruncatedInput"

C7_GetSizeCanonical ==
    op = "get_size" => result.kind = "Ok" /\ result.value = CanonicalLen(size)

\* C8: restricted length agreement. Whenever get_size(v) and encode(v) both
\* return, get_size(v) = len(encode(v)); and get_size returns 5 for every v
\* in [0x10000000, 0xFFFFFFFE].
C8_AgreeWhereBothReturn ==
    op = "get_size" =>
        /\ (result.kind = "Ok" /\ encode(size).kind = "Ok")
              => result.value = Len(encode(size).value)
        /\ (U64Le(Lit10000000, size) /\ U64Lt(size, LitFFFFFFFF))
              => (result.kind = "Ok" /\ result.value = 5)

\* C8 witness: get_size(0x10000000) has returned 5 and encode returns there.
C8_Witness ==
    /\ op = "get_size"
    /\ size = Lit10000000
    /\ result = Ok(5)
    /\ encode(size).kind = "Ok"

\* C9: decode's fallback panic arm is unreachable: for every slice at least
\* as long as its discriminator requires, decode returns Ok whatever the first
\* byte and the payload are.
C9_DecodeNoPanic ==
    (op = "decode" /\ LongEnough(bytes)) => result.kind = "Ok"

\* C9 witness: decode of a slice starting with 0xFC, the largest one-byte
\* value, has returned Ok.
C9_Witness ==
    op = "decode" /\ Len(bytes) >= 1 /\ bytes[1] = 252 /\ result.kind = "Ok"

\* C10: decode does not enforce canonical form and ignores trailing bytes.
\* Its result is that of the first 1, 3, 5 or 9 bytes alone; a payload that
\* belongs to a smaller length class is returned as it is, and encode of the
\* returned value is then not the consumed prefix.
C10_NonCanonicalAccepted ==
    (op = "decode" /\ LongEnough(bytes)) =>
        LET prefix == SubSeq(bytes, 1, Required(bytes))
        IN  /\ result = decode(prefix)
            /\ CanonicalLen(CarriedValue(bytes)) < Required(bytes) =>
                  /\ result.kind = "Ok"
                  /\ result.value = CarriedValue(bytes)
                  /\ ~(encode(result.value).kind = "Ok"
                         /\ encode(result.value).value = prefix)

\* C10 witness: decode([0xFD, 0x05, 0x00, 0xFF]) has returned 5, as
\* decode([0x05]) does, and encode(5) = [0x05] is not the consumed prefix.
C10_Witness ==
    /\ op = "decode"
    /\ bytes = <<253, 5, 0, 255>>
    /\ result = Ok(U64(0, 0, 0, 5))
    /\ result = decode(<<5>>)
    /\ encode(result.value) = Ok(<<5>>)

=============================================================================
